---- MODULE Spec2Model ----
(***************************************************************************)
(* Model of the in-memory fixed-window RateLimiter                         *)
(* (src/front-end/server-driven-ui/src/utils/rate-limiter.ts).             *)
(*                                                                         *)
(* The store is a Map from identifier to {count, resetTime}; it is         *)
(* modelled as a function whose DOMAIN is the set of keys present.         *)
(* Date.now() is the variable clock; isRateLimited reads it twice (once    *)
(* inside cleanup, once in its own body) and the millisecond may turn      *)
(* over between the two reads.                                             *)
(*                                                                         *)
(* Besides the program state the module keeps history variables that      *)
(* record what the last call returned and what two reference limiters     *)
(* (one that never sweeps, one per identifier in isolation) would return. *)
(***************************************************************************)
EXTENDS Integers, FiniteSets, Sequences, TLC

\* ---------------------------------------------------------------- bounds
MaxTime == 4
MaxWindowMs == 2
MaxMaxRequests == 2
MaxMwTime == 3
MaxRetries == 6
MaxSingleTicks == 2
MaxSingleWaits == 1
MaxPending == 2
FormTickMs == 1000

\* strings are sequences of one-character strings
Identifiers == {<<"a">>, <<"b">>}

CallCap == MaxMaxRequests + 2

VARIABLES
    store,          \* this.store : Map<string, RateLimitRecord>
    windowMs,       \* this.windowMs
    maxRequests,    \* this.maxRequests
    clock,          \* Date.now()
    last,           \* history: the last operation, its arguments and results
    calls,          \* history: isRateLimited calls in the identifier's window
    windowStart,    \* history: time of the call that opened the window, or -1
    lastWrite,      \* history: time of the last write to the record, or -1
    fresh,          \* history: deleted by reset/clear, until the next call
    seen,           \* history: identifiers isRateLimited was ever called with
    ncStore,        \* reference limiter that never runs cleanup
    solo,           \* reference limiters, one per identifier, run in isolation
    mw,             \* the last request the middleware handled, and its answer
    single,         \* history of the one caller of the singleton limiter
    vf,             \* validateForm: its arguments and its result
    form,           \* useForm: the hook's state and isMountedRef
    env,            \* useForm: submit calls in flight and pending timers
    flast,          \* useForm history: the last event and the state before
    page,           \* Home: config, loading, error and the fetch in flight
    plast,          \* Home history: the last event and the state before
    post            \* POST /api/submit: the request and its response

limiterVars == <<store, windowMs, maxRequests, clock, last, calls,
                 windowStart, lastWrite, fresh, seen, ncStore, solo>>

\* the variables of the components around the limiter
mwVars == <<mw, single>>

vfVars == <<vf>>

formVars == <<form, env, flast>>

pageVars == <<page, plast>>

postVars == <<post>>

others == <<mw, single, vf, form, env, flast, page, plast, post>>

vars == <<store, windowMs, maxRequests, clock, last, calls, windowStart,
          lastWrite, fresh, seen, ncStore, solo, mw, single, vf, form, env,
          flast,
          page, plast, post>>

\* ------------------------------------------------------------ Map helpers
EmptyMap == [k \in {} |-> [count |-> 0, resetTime |-> 0]]

MapHas(s, key) == key \in DOMAIN s

MapSet(s, key, rec) ==
    [k \in DOMAIN s \cup {key} |-> IF k = key THEN rec ELSE s[k]]

MapDelete(s, key) == [k \in DOMAIN s \ {key} |-> s[k]]

\* --------------------------------------------------------- RateLimiter
\* private cleanup(): delete every record with now > record.resetTime
cleanupGe(s, now) ==
    [k \in {i \in DOMAIN s : ~(now >= s[i].resetTime)} |-> s[k]]

cleanupAll(s, now) ==
    IF \E i \in DOMAIN s : now > s[i].resetTime
    THEN [k \in {} |-> [count |-> 0, resetTime |-> 0]]
    ELSE s

cleanupNone(s, now) == s

cleanup(s, now) ==
    [k \in {i \in DOMAIN s : ~(now > s[i].resetTime)} |-> s[k]]

\* body of isRateLimited after the sweep (lines 26-39)
admitCountGt(s, identifier, now) ==
    IF ~MapHas(s, identifier) \/ now > s[identifier].resetTime
    THEN [store  |-> MapSet(s, identifier,
                            [count |-> 1, resetTime |-> now + windowMs]),
          result |-> FALSE]
    ELSE IF s[identifier].count > maxRequests
    THEN [store |-> s, result |-> TRUE]
    ELSE [store  |-> MapSet(s, identifier,
                            [s[identifier] EXCEPT !.count = @ + 1]),
          result |-> FALSE]

admitDenyExtends(s, identifier, now) ==
    IF ~MapHas(s, identifier) \/ now > s[identifier].resetTime
    THEN [store  |-> MapSet(s, identifier,
                            [count |-> 1, resetTime |-> now + windowMs]),
          result |-> FALSE]
    ELSE IF s[identifier].count >= maxRequests
    THEN [store  |-> MapSet(s, identifier,
                            [s[identifier] EXCEPT !.resetTime = now + windowMs]),
          result |-> TRUE]
    ELSE [store  |-> MapSet(s, identifier,
                            [s[identifier] EXCEPT !.count = @ + 1]),
          result |-> FALSE]

admitNoWindow(s, identifier, now) ==
    IF ~MapHas(s, identifier) \/ now > s[identifier].resetTime
    THEN [store  |-> MapSet(s, identifier,
                            [count |-> 1, resetTime |-> now]),
          result |-> FALSE]
    ELSE IF s[identifier].count >= maxRequests
    THEN [store |-> s, result |-> TRUE]
    ELSE [store  |-> MapSet(s, identifier,
                            [s[identifier] EXCEPT !.count = @ + 1]),
          result |-> FALSE]

admitSliding(s, identifier, now) ==
    IF ~MapHas(s, identifier) \/ now > s[identifier].resetTime
    THEN [store  |-> MapSet(s, identifier,
                            [count |-> 1, resetTime |-> now + windowMs]),
          result |-> FALSE]
    ELSE IF s[identifier].count >= maxRequests
    THEN [store |-> s, result |-> TRUE]
    ELSE [store  |-> MapSet(s, identifier,
                            [count |-> s[identifier].count + 1,
                             resetTime |-> now + windowMs]),
          result |-> FALSE]

admit(s, identifier, now) ==
    IF ~MapHas(s, identifier) \/ now > s[identifier].resetTime
    THEN [store  |-> MapSet(s, identifier,
                            [count |-> 1, resetTime |-> now + windowMs]),
          result |-> FALSE]
    ELSE IF s[identifier].count >= maxRequests
    THEN [store |-> s, result |-> TRUE]
    ELSE [store  |-> MapSet(s, identifier,
                            [s[identifier] EXCEPT !.count = @ + 1]),
          result |-> FALSE]

\* isRateLimited(identifier): this.cleanup() at its own Date.now(), then the
\* body at a second Date.now()
isRateLimitedNoExpiry(s, identifier, cleanupNow, now) ==
    IF ~MapHas(s, identifier)
    THEN [store  |-> MapSet(s, identifier,
                            [count |-> 1, resetTime |-> now + windowMs]),
          result |-> FALSE]
    ELSE IF s[identifier].count >= maxRequests
    THEN [store |-> s, result |-> TRUE]
    ELSE [store  |-> MapSet(s, identifier,
                            [s[identifier] EXCEPT !.count = @ + 1]),
          result |-> FALSE]

isRateLimited(s, identifier, cleanupNow, now) ==
    admit(cleanup(s, cleanupNow), identifier, now)

\* getCount(identifier): record ? record.count : 0
getCount(s, identifier) ==
    IF MapHas(s, identifier) THEN s[identifier].count ELSE 0

\* reset(identifier): this.store.delete(identifier)
resetNoop(s, identifier) == s

resetAll(s, identifier) ==
    IF MapHas(s, identifier) THEN EmptyMap ELSE s

reset(s, identifier) == MapDelete(s, identifier)

\* clear(): this.store.clear()
clearNoop(s) == s

clear(s) == EmptyMap

\* -------------------------------------------------------------- strings
StartsWith(str, prefix) ==
    /\ Len(str) >= Len(prefix)
    /\ SubSeq(str, 1, Len(prefix)) = prefix

\* index of the first "," of str, or Len(str) + 1
RECURSIVE CommaAt(_, _)
CommaAt(str, i) ==
    IF i > Len(str) THEN i
    ELSE IF str[i] = "," THEN i
    ELSE CommaAt(str, i + 1)

\* str.split(',')[0]
FirstEntry(str) == SubSeq(str, 1, CommaAt(str, 1) - 1)

RECURSIVE TrimStart(_)
TrimStart(str) ==
    IF str # <<>> /\ Head(str) = " " THEN TrimStart(Tail(str)) ELSE str

RECURSIVE TrimEnd(_)
TrimEnd(str) ==
    IF str # <<>> /\ str[Len(str)] = " "
    THEN TrimEnd(SubSeq(str, 1, Len(str) - 1))
    ELSE str

\* str.trim()
Trim(str) == TrimEnd(TrimStart(str))

\* ----------------------------------------------------------- middleware
\* request.headers.get(name): null or a string
NoHeader == [present |-> FALSE, value |-> <<>>]

Header(str) == [present |-> TRUE, value |-> str]

\* JavaScript truthiness of a header value: neither null nor ''
Truthy(h) == h.present /\ h.value # <<>>

Unknown == <<"u", "n", "k", "n", "o", "w", "n">>

ApiPrefix == <<"/", "a", "p", "i", "/">>

RetryAfterSeconds == 60

\* the 429 answer, and NextResponse.next()
TooManyRequests ==
    [status |-> 429, error |-> "RATE_LIMIT_EXCEEDED",
     retryAfter |-> RetryAfterSeconds, proceeds |-> FALSE]

NextResponse ==
    [status |-> 200, error |-> "", retryAfter |-> 0, proceeds |-> TRUE]

\* forwardedFor ? forwardedFor.split(',')[0].trim()
\*              : request.headers.get('x-real-ip') || 'unknown'
ClientIpWholeHeader(request) ==
    IF Truthy(request.forwardedFor)
    THEN Trim(request.forwardedFor.value)
    ELSE IF Truthy(request.realIp) THEN request.realIp.value
    ELSE Unknown

ClientIp(request) ==
    IF Truthy(request.forwardedFor)
    THEN Trim(FirstEntry(request.forwardedFor.value))
    ELSE IF Truthy(request.realIp) THEN request.realIp.value
    ELSE Unknown

\* middleware(request) on the limiter store s
middlewareApiNoSlash(s, request, cleanupNow, now) ==
    IF StartsWith(request.path, <<"/", "a", "p", "i">>)
    THEN LET ip == ClientIp(request)
             r  == isRateLimited(s, ip, cleanupNow, now)
         IN  [store |-> r.store, called |-> TRUE, ip |-> ip,
              result |-> r.result,
              response |-> IF r.result THEN TooManyRequests
                           ELSE NextResponse]
    ELSE [store |-> s, called |-> FALSE, ip |-> <<>>, result |-> FALSE,
          response |-> NextResponse]

middleware(s, request, cleanupNow, now) ==
    IF StartsWith(request.path, ApiPrefix)
    THEN LET ip == ClientIp(request)
             r  == isRateLimited(s, ip, cleanupNow, now)
         IN  [store |-> r.store, called |-> TRUE, ip |-> ip,
              result |-> r.result,
              response |-> IF r.result THEN TooManyRequests
                           ELSE NextResponse]
    ELSE [store |-> s, called |-> FALSE, ip |-> <<>>, result |-> FALSE,
          response |-> NextResponse]

\* the requests the middleware is driven with
MwPaths ==
    { <<"/">>,
      <<"/", "a", "p", "i">>,
      <<"/", "a", "p", "i", "/">>,
      <<"/", "a", "p", "i", "/", "c">> }

MwForwardedFor ==
    { NoHeader, Header(<<>>), Header(<<" ", "a", " ", ",", "b">>) }

MwRealIp == { NoHeader, Header(<<"a">>) }

MwRequests ==
    [path : MwPaths, forwardedFor : MwForwardedFor, realIp : MwRealIp]

NoMw ==
    [op |-> "none", request |-> [path |-> <<>>, forwardedFor |-> NoHeader,
                                 realIp |-> NoHeader],
     called |-> FALSE, ip |-> <<>>, result |-> FALSE,
     response |-> NextResponse, preStore |-> EmptyMap,
     cleanupNow |-> 0, now |-> 0]

\* the singleton the middleware uses: new RateLimiter()
DefaultWindowMs == 60000

DefaultMaxRequests == 100

\* seconds of the Retry-After header, in milliseconds of Date.now()
RetryAfterMs == RetryAfterSeconds * 1000

\* an API request that carries neither x-forwarded-for nor x-real-ip
AnonymousRequest ==
    [path |-> <<"/", "a", "p", "i", "/", "c">>, forwardedFor |-> NoHeader,
     realIp |-> NoHeader]

NoWindow == [admitted |-> 0, resetTime |-> -1]

NoSingle ==
    [op |-> "none", calls |-> 0, admitted |-> 0, openedAt |-> -1,
     prev |-> NoWindow, deniedAt |-> -1, preDeniedAt |-> -1,
     ticks |-> 0, waits |-> 0]

MwIdle ==
    /\ mw = NoMw
    /\ single = NoSingle

\* ----------------------------------------------------------- validation
Whitespace == {" "}

Digits == {"0", "1", "2", "3", "4", "5", "6", "7", "8", "9"}

\* [^\s@]+ over str[from..to]
NoSpaceNoAt(str, from, to) ==
    /\ from <= to
    /\ \A k \in from..to : str[k] \notin Whitespace \cup {"@"}

\* /^[^\s@]+@[^\s@]+\.[^\s@]+$/.test(str)
EmailRegexTest(str) ==
    \E i \in 1..Len(str) : \E j \in 1..Len(str) :
        /\ i < j
        /\ str[i] = "@"
        /\ str[j] = "."
        /\ NoSpaceNoAt(str, 1, i - 1)
        /\ NoSpaceNoAt(str, i + 1, j - 1)
        /\ NoSpaceNoAt(str, j + 1, Len(str))

\* str.replace(/[\s\-\(\)]/g, '')
RECURSIVE StripPhonePunctuation(_)
StripPhonePunctuation(str) ==
    IF str = <<>> THEN <<>>
    ELSE IF Head(str) \in Whitespace \cup {"-", "(", ")"}
    THEN StripPhonePunctuation(Tail(str))
    ELSE <<Head(str)>> \o StripPhonePunctuation(Tail(str))

\* /^[\+]?[1-9][\d]{0,15}$/.test(str)
PhoneRegexTest(str) ==
    LET rest == IF str # <<>> /\ Head(str) = "+" THEN Tail(str) ELSE str
    IN  /\ Len(rest) >= 1
        /\ Len(rest) <= 16
        /\ rest[1] \in Digits \ {"0"}
        /\ \A k \in 2..Len(rest) : rest[k] \in Digits

\* (formData[component.id] as string) || ''
ValueOf(formData, id) ==
    IF id \in DOMAIN formData THEN formData[id] ELSE <<>>

ThisField == <<"T", "h", "i", "s", " ", "f", "i", "e", "l", "d">>

\* `${component.label || 'This field'} is required`
RequiredMessage(component) ==
    [text  |-> "is required",
     label |-> IF component.label # <<>> THEN component.label
               ELSE ThisField]

InvalidEmailMessage ==
    [text |-> "Please enter a valid email address", label |-> <<>>]

InvalidPhoneMessage ==
    [text |-> "Please enter a valid phone number", label |-> <<>>]

NoErrors == [k \in {} |-> InvalidEmailMessage]

\* the body of config.components.forEach in validateForm
ValidateComponent(errors, component, formData) ==
    IF component.type = "input" \/ component.type = "dropdown"
    THEN LET value == ValueOf(formData, component.id)
             e1 == IF component.required /\ Trim(value) = <<>>
                   THEN MapSet(errors, component.id,
                               RequiredMessage(component))
                   ELSE errors
             e2 == IF /\ component.type = "input"
                      /\ component.id = "email"
                      /\ value # <<>>
                      /\ ~EmailRegexTest(value)
                   THEN MapSet(e1, component.id, InvalidEmailMessage)
                   ELSE e1
             e3 == IF /\ component.type = "input"
                      /\ component.id = "phone"
                      /\ value # <<>>
                      /\ ~PhoneRegexTest(StripPhonePunctuation(value))
                   THEN MapSet(e2, component.id, InvalidPhoneMessage)
                   ELSE e2
         IN  e3
    ELSE errors

RECURSIVE ValidateFrom(_, _, _)
ValidateFrom(errors, components, formData) ==
    IF components = <<>> THEN errors
    ELSE ValidateFrom(ValidateComponent(errors, Head(components), formData),
                      Tail(components), formData)

\* validateForm(config, formData)
validateForm(config, formData) ==
    ValidateFrom(NoErrors, config.components, formData)

\* the arguments validateForm is applied to
VfIds == {"name", "email", "phone"}

VfTypes == {"input", "dropdown", "text"}

VfLabels == {<<>>, <<"L">>}

VfValues ==
    { <<>>, <<" ">>, <<"x">>, <<"a", "@", "b", ".", "c">>,
      <<"(", "1", ")", " ", "2">> }

VfComponents ==
    [id : VfIds, type : VfTypes, label : VfLabels, required : BOOLEAN]

VfSecond ==
    [id |-> "name", type |-> "dropdown", label |-> <<"N">>,
     required |-> TRUE]

VfConfigs ==
    {[components |-> <<c>>] : c \in VfComponents}
      \cup {[components |-> <<c, VfSecond>>] :
               c \in {d \in VfComponents : d.id # VfSecond.id}}

VfFormData == UNION {[S -> VfValues] : S \in SUBSET VfIds}

NoVf ==
    [done |-> FALSE, config |-> [components |-> <<>>],
     formData |-> NoErrors, errors |-> NoErrors]

VfIdle == vf = NoVf

\* -------------------------------------------------------------- useForm
Null == "null"

PleaseFix == "Please fix the errors below"

SubmittedSuccessfully == "Form submitted successfully!"

NetworkErrorMessage ==
    "Network error. Please check your connection and try again."

UnexpectedErrorMessage == "An unexpected error occurred. Please try again."

NoFormData == [k \in {} |-> <<>>]

\* the state right after useForm's first render
InitialForm ==
    [formData |-> NoFormData, isSubmitting |-> FALSE, error |-> Null,
     success |-> Null, fieldErrors |-> NoErrors, isMounted |-> TRUE]

\* handleFieldChange(fieldId, value)
handleFieldChangeNoSpread(f, fieldId, value) ==
    IF ~f.isMounted THEN f
    ELSE [f EXCEPT
            !.formData = MapSet(NoFormData, fieldId, value),
            !.error = Null,
            !.fieldErrors =
                IF fieldId \in DOMAIN @ /\ @[fieldId].text # ""
                THEN MapSet(@, fieldId, [text |-> "", label |-> <<>>])
                ELSE @,
            !.success = Null]

handleFieldChange(f, fieldId, value) ==
    IF ~f.isMounted THEN f
    ELSE [f EXCEPT
            !.formData = MapSet(@, fieldId, value),
            !.error = Null,
            !.fieldErrors =
                IF fieldId \in DOMAIN @ /\ @[fieldId].text # ""
                THEN MapSet(@, fieldId, [text |-> "", label |-> <<>>])
                ELSE @,
            !.success = Null]

\* handleSubmit(e), up to the first await: the new state and the call made
handleSubmitIgnoresErrors(f, config, hasOnSubmit) ==
    IF ~f.isMounted THEN [form |-> f, started |-> "none"]
    ELSE [form |-> [f EXCEPT !.isSubmitting = TRUE, !.error = Null,
                             !.success = Null, !.fieldErrors = NoErrors],
          started |-> IF hasOnSubmit THEN "onSubmit" ELSE "fetch"]

handleSubmit(f, config, hasOnSubmit) ==
    IF ~f.isMounted THEN [form |-> f, started |-> "none"]
    ELSE LET validationErrors == validateForm(config, f.formData) IN
         IF DOMAIN validationErrors # {}
         THEN [form |-> [f EXCEPT !.fieldErrors = validationErrors,
                                  !.error = PleaseFix],
               started |-> "none"]
         ELSE [form |-> [f EXCEPT !.isSubmitting = TRUE, !.error = Null,
                                  !.success = Null,
                                  !.fieldErrors = NoErrors],
               started |-> IF hasOnSubmit THEN "onSubmit" ELSE "fetch"]

\* what the awaited submit call ends with: ok, or a thrown value
Resolved == [ok |-> TRUE, isError |-> FALSE, message |-> "",
             includesFetch |-> FALSE]

Thrown(message, includesFetch) ==
    [ok |-> FALSE, isError |-> TRUE, message |-> message,
     includesFetch |-> includesFetch]

NotAnError == [ok |-> FALSE, isError |-> FALSE, message |-> "",
               includesFetch |-> FALSE]

\* the default submission: fetch(config.submitUrl), response.ok,
\* response.json()
FetchResults ==
    { [rejects |-> TRUE,  ok |-> FALSE, jsonOk |-> FALSE, message |-> ""],
      [rejects |-> FALSE, ok |-> TRUE,  jsonOk |-> TRUE,  message |-> ""],
      [rejects |-> FALSE, ok |-> TRUE,  jsonOk |-> FALSE, message |-> ""],
      [rejects |-> FALSE, ok |-> FALSE, jsonOk |-> TRUE,
       message |-> "Email validation failed"],
      [rejects |-> FALSE, ok |-> FALSE, jsonOk |-> FALSE, message |-> ""] }

FetchOutcome(r) ==
    IF r.rejects THEN Thrown("Failed to fetch", TRUE)
    ELSE IF ~r.ok
    THEN IF r.jsonOk /\ r.message # ""
         THEN Thrown(r.message, FALSE)
         ELSE Thrown("Server error: 500 Internal Server Error", FALSE)
    ELSE IF ~r.jsonOk
    THEN Thrown("Unexpected end of JSON input", FALSE)
    ELSE Resolved

\* await onSubmit(formData)
OnSubmitOutcomes ==
    { Resolved, NotAnError,
      Thrown("Failed to fetch", TRUE),
      Thrown("HTTP error! status: 500", FALSE),
      Thrown("Email validation failed", FALSE) }

\* the message the catch block shows
ErrorMessageOf(outcome) ==
    IF outcome.isError
    THEN IF outcome.includesFetch THEN NetworkErrorMessage
         ELSE outcome.message
    ELSE UnexpectedErrorMessage

\* handleSubmit after the await: try, catch and finally
settleKeepsSubmitting(f, outcome) ==
    IF ~f.isMounted THEN [form |-> f, timer |-> FALSE]
    ELSE IF outcome.ok
    THEN [form |-> [f EXCEPT !.success = SubmittedSuccessfully,
                             !.isSubmitting = FALSE],
          timer |-> TRUE]
    ELSE [form |-> [f EXCEPT !.error = ErrorMessageOf(outcome)],
          timer |-> FALSE]

settle(f, outcome) ==
    IF ~f.isMounted THEN [form |-> f, timer |-> FALSE]
    ELSE IF outcome.ok
    THEN [form |-> [f EXCEPT !.success = SubmittedSuccessfully,
                             !.isSubmitting = FALSE],
          timer |-> TRUE]
    ELSE [form |-> [f EXCEPT !.error = ErrorMessageOf(outcome),
                             !.isSubmitting = FALSE],
          timer |-> FALSE]

\* the setTimeout callback of a successful submission
autoResetKeepsData(f) ==
    IF f.isMounted THEN [f EXCEPT !.fieldErrors = NoErrors] ELSE f

autoResetAfterUnmount(f) ==
    [f EXCEPT !.formData = NoFormData, !.fieldErrors = NoErrors]

autoReset(f) ==
    IF f.isMounted
    THEN [f EXCEPT !.formData = NoFormData, !.fieldErrors = NoErrors]
    ELSE f

\* resetForm()
resetFormKeepsMessages(f) ==
    IF ~f.isMounted THEN f
    ELSE [f EXCEPT !.formData = NoFormData, !.fieldErrors = NoErrors,
                   !.isSubmitting = FALSE]

resetForm(f) ==
    IF ~f.isMounted THEN f
    ELSE [f EXCEPT !.formData = NoFormData, !.fieldErrors = NoErrors,
                   !.error = Null, !.success = Null,
                   !.isSubmitting = FALSE]

\* cleanup(), the beforeunload listener
unmount(f) == [f EXCEPT !.isMounted = FALSE]

AutoResetDelayMs == 2000

\* the form the hook is used with, and what the user types
FormConfig ==
    [components |->
        << [id |-> "name", type |-> "input", label |-> <<"N">>,
            required |-> TRUE],
           [id |-> "email", type |-> "input", label |-> <<"E">>,
            required |-> FALSE],
           [id |-> "submit", type |-> "button", label |-> <<"S">>,
            required |-> FALSE] >>]

FormFieldIds == {"name", "email"}

FormValues == { <<" ">>, <<"x">>, <<"a", "@", "b", ".", "c">> }

\* Input and Dropdown get disabled={component.disabled || isSubmitting}, the
\* submit Button loading={isSubmitting}, the reset button
\* disabled={isSubmitting}
ControlsDisabledNever(f) == FALSE

ControlsDisabled(f) == f.isSubmitting

\* dirty[k]: the fields typed into since timers[k] was set
NoEnv ==
    [hasOnSubmit |-> FALSE, inFlight |-> 0, timers |-> <<>>,
     dirty |-> <<>>]

NoFlast ==
    [op |-> "none", pre |-> InitialForm, preTimers |-> <<>>,
     preDirty |-> <<>>, fieldId |-> "", value |-> <<>>, started |-> "none",
     outcome |-> Resolved]

FormIdle ==
    /\ form = InitialForm
    /\ env = NoEnv
    /\ flast = NoFlast

\* ------------------------------------------------------------ Home page
FailedToLoadFormConfiguration == "Failed to load form configuration"

FailedToLoadConfiguration == "Failed to load configuration"

FailedToFetchConfiguration ==
    "Failed to fetch configuration: 500 Internal Server Error"

ConfigUrl == "/api/config"

\* the state of Home's first render
InitialPage ==
    [config |-> Null, loading |-> TRUE, error |-> Null, retryCount |-> 0,
     effectRan |-> FALSE, inFlight |-> 0]

\* what fetch('/api/config') and response.json() can end with
NoBody == [success |-> "absent", hasData |-> FALSE, message |-> ""]

ConfigResults ==
    { [rejects |-> TRUE, isError |-> TRUE, message |-> "Network error",
       ok |-> FALSE, jsonOk |-> FALSE, body |-> NoBody],
      [rejects |-> TRUE, isError |-> FALSE, message |-> "",
       ok |-> FALSE, jsonOk |-> FALSE, body |-> NoBody],
      [rejects |-> FALSE, isError |-> FALSE, message |-> "",
       ok |-> FALSE, jsonOk |-> FALSE, body |-> NoBody],
      [rejects |-> FALSE, isError |-> FALSE, message |-> "",
       ok |-> FALSE, jsonOk |-> TRUE,
       body |-> [success |-> "false", hasData |-> FALSE,
                 message |-> "Configuration service temporarily unavailable"]],
      [rejects |-> FALSE, isError |-> FALSE, message |-> "",
       ok |-> TRUE, jsonOk |-> FALSE, body |-> NoBody],
      [rejects |-> FALSE, isError |-> FALSE, message |-> "",
       ok |-> TRUE, jsonOk |-> TRUE,
       body |-> [success |-> "false", hasData |-> FALSE,
                 message |-> "Invalid configuration"]],
      [rejects |-> FALSE, isError |-> FALSE, message |-> "",
       ok |-> TRUE, jsonOk |-> TRUE,
       body |-> [success |-> "false", hasData |-> FALSE, message |-> ""]],
      [rejects |-> FALSE, isError |-> FALSE, message |-> "",
       ok |-> TRUE, jsonOk |-> TRUE,
       body |-> [success |-> "true", hasData |-> TRUE, message |-> ""]],
      [rejects |-> FALSE, isError |-> FALSE, message |-> "",
       ok |-> TRUE, jsonOk |-> TRUE,
       body |-> [success |-> "absent", hasData |-> FALSE, message |-> ""]] }

\* loadConfig(), up to the await of fetch
loadConfig(p) ==
    [page |-> [p EXCEPT !.loading = TRUE, !.error = Null,
                        !.inFlight = @ + 1],
     fetched |-> <<ConfigUrl>>]

\* loadConfig() after the await: try, catch and finally
loadConfigSettleIgnoresSuccessFalse(p, r) ==
    LET thrown ==
            IF r.rejects
            THEN IF r.isError THEN r.message
                 ELSE FailedToLoadFormConfiguration
            ELSE IF ~r.ok
            THEN IF r.jsonOk /\ r.body.message # "" THEN r.body.message
                 ELSE FailedToFetchConfiguration
            ELSE IF ~r.jsonOk THEN "Unexpected token < in JSON"
            ELSE Null
        q == [p EXCEPT !.inFlight = @ - 1, !.loading = FALSE]
    IN  IF thrown # Null THEN [q EXCEPT !.error = thrown]
        ELSE [q EXCEPT !.config =
                        IF r.body.hasData THEN "result.data" ELSE "result"]

loadConfigSettle(p, r) ==
    LET thrown ==
            IF r.rejects
            THEN IF r.isError THEN r.message
                 ELSE FailedToLoadFormConfiguration
            ELSE IF ~r.ok
            THEN IF r.jsonOk /\ r.body.message # "" THEN r.body.message
                 ELSE FailedToFetchConfiguration
            ELSE IF ~r.jsonOk THEN "Unexpected token < in JSON"
            ELSE IF r.body.success = "false"
            THEN IF r.body.message # "" THEN r.body.message
                 ELSE FailedToLoadConfiguration
            ELSE Null
        q == [p EXCEPT !.inFlight = @ - 1, !.loading = FALSE]
    IN  IF thrown # Null THEN [q EXCEPT !.error = thrown]
        ELSE [q EXCEPT !.config =
                        IF r.body.hasData THEN "result.data" ELSE "result"]

\* handleRetry()
handleRetry(p) == loadConfig([p EXCEPT !.retryCount = @ + 1])

\* the effect of the first render
useEffect(p) == loadConfig([p EXCEPT !.effectRan = TRUE])

\* which of its four views Home renders
View(p) ==
    IF p.loading THEN "loading"
    ELSE IF p.error # Null /\ p.error # "" THEN "error"
    ELSE IF p.config = Null THEN "noConfig"
    ELSE "form"

\* the views that show a button wired to handleRetry
RetryShown(p) == View(p) \in {"error", "noConfig"}

NoPlast ==
    [op |-> "none", pre |-> InitialPage, fetched |-> <<>>,
     result |-> CHOOSE r \in ConfigResults : r.rejects /\ r.isError,
     afterFailure |-> FALSE]

PageIdle ==
    /\ page = InitialPage
    /\ plast = NoPlast

\* ------------------------------------------------------ POST /api/submit
\* strings of the request are sequences of symbols: one character, or one
\* of the words below taken as a whole
Tags == {"<script>", "</script>", "<b>", "</b>", "<iframe>", "<object>",
         "<embed>"}

\* DOMPurify.sanitize(input, { ALLOWED_TAGS: [], ALLOWED_ATTR: [] }): tags
\* go, the text between them stays, a script element goes with its text
RECURSIVE Sanitize(_, _)
Sanitize(input, inScript) ==
    IF input = <<>> THEN <<>>
    ELSE IF inScript
    THEN Sanitize(Tail(input), Head(input) # "</script>")
    ELSE IF Head(input) = "<script>" THEN Sanitize(Tail(input), TRUE)
    ELSE IF Head(input) \in Tags THEN Sanitize(Tail(input), FALSE)
    ELSE <<Head(input)>> \o Sanitize(Tail(input), FALSE)

\* a JSON value of formData: a string, a number or null
JString(str) == [kind |-> "string", str |-> str]

JNumber(str) == [kind |-> "number", str |-> str]

JNull == [kind |-> "null", str |-> <<>>]

sanitizeInput(input) == Sanitize(input, FALSE)

sanitizeValue(value) ==
    IF value.kind = "string" THEN sanitizeInput(value.str)
    ELSE IF value.kind # "null" THEN sanitizeInput(value.str)
    ELSE <<>>

sanitizeFormData(formData) ==
    [key \in DOMAIN formData |-> sanitizeValue(formData[key])]

\* the script element pattern: an opening tag with its closing tag after it
HasScriptElement(input) ==
    \E i \in 1..Len(input) : \E j \in 1..Len(input) :
        i < j /\ input[i] = "<script>" /\ input[j] = "</script>"

DangerousWords ==
    {"javascript:", "onx=", "data:text/html", "vbscript:", "<iframe>",
     "<object>", "<embed>"}

containsInjectionAttempt(input) ==
    /\ input # <<>>
    /\ \/ HasScriptElement(input)
       \/ \E i \in 1..Len(input) : input[i] \in DangerousWords

\* email.split('@') of a string the regex accepted
AtIndex(email) == CHOOSE i \in 1..Len(email) : email[i] = "@"

LocalPart(email) == SubSeq(email, 1, AtIndex(email) - 1)

DomainPart(email) == SubSeq(email, AtIndex(email) + 1, Len(email))

\* the number of characters of a symbol, and of a string
SymbolLength(c) ==
    IF c = "MAILINATOR" \/ c = "mailinator" THEN 10
    ELSE IF c = "error" THEN 5
    ELSE IF c = "com" THEN 3
    ELSE 1

RECURSIVE Length(_)
Length(str) ==
    IF str = <<>> THEN 0 ELSE SymbolLength(Head(str)) + Length(Tail(str))

MaxLocalPartLength == 64

MaxDomainLength == 255

ToLowerCase(str) ==
    [k \in 1..Len(str) |->
        IF str[k] = "MAILINATOR" THEN "mailinator" ELSE str[k]]

Includes(str, part) ==
    \E k \in 0..(Len(str) - Len(part)) :
        SubSeq(str, k + 1, k + Len(part)) = part

disposableDomains ==
    { <<"tempmail", ".", "org">>, <<"10minutemail", ".", "com">>,
      <<"guerrillamail", ".", "com">>, <<"mailinator", ".", "com">>,
      <<"throwaway", ".", "email">>, <<"temp-mail", ".", "org">> }

isValidEmail(email) ==
    /\ email # <<>>
    /\ EmailRegexTest(email)
    /\ Length(LocalPart(email)) <= MaxLocalPartLength
    /\ Length(DomainPart(email)) <= MaxDomainLength
    /\ ~\E d \in disposableDomains :
            Includes(ToLowerCase(DomainPart(email)), d)

\* the JSON body: null, a number, or an object whose formData is absent,
\* null, '', a number or an object
NoFields == [k \in {} |-> JNull]

Body(kind, formDataKind, fields) ==
    [kind |-> kind, formData |-> [kind |-> formDataKind, fields |-> fields]]

Response(status, success, error, data) ==
    [status |-> status, success |-> success, error |-> error, data |-> data]

NoData == Body("null", "absent", NoFields)

\* POST(request)
POST(request) ==
    IF ~request.hasBody THEN Response(400, FALSE, "MISSING_BODY", NoData)
    ELSE IF ~request.parses
    THEN Response(400, FALSE, "INVALID_JSON", NoData)
    ELSE LET body == request.body IN
    IF body.kind = "null"
    THEN Response(500, FALSE, "INTERNAL_ERROR", NoData)
    ELSE IF body.kind # "object"
            \/ body.formData.kind \in {"absent", "null", "emptyString"}
    THEN Response(400, FALSE, "MISSING_FORM_DATA", NoData)
    ELSE LET raw == body.formData.fields
             sanitizedFormData == sanitizeFormData(raw) IN
    IF \E key \in DOMAIN sanitizedFormData :
            containsInjectionAttempt(sanitizedFormData[key])
    THEN Response(400, FALSE, "INVALID_INPUT", NoData)
    ELSE IF /\ "email" \in DOMAIN sanitizedFormData
            /\ sanitizedFormData["email"] # <<>>
            /\ ~isValidEmail(sanitizedFormData["email"])
    THEN Response(422, FALSE, "INVALID_EMAIL", NoData)
    ELSE IF "email" \in DOMAIN raw /\ raw["email"].kind = "number"
    THEN Response(500, FALSE, "INTERNAL_ERROR", NoData)
    ELSE IF /\ "email" \in DOMAIN raw
            /\ raw["email"].kind = "string"
            /\ Includes(raw["email"].str, <<"error">>)
    THEN Response(422, FALSE, "EMAIL_VALIDATION_ERROR", NoData)
    ELSE Response(200, TRUE, "", body)

\* the requests sent to the route
PostEmails ==
    { JNull, JString(<<>>), JNumber(<<"5">>),
      JString(<<"a", "@", "b", ".", "c">>),
      JString(<<"error", "@", "b", ".", "c">>),
      JString(<<"error">>),
      JString(<<"a", "@">>),
      JString(<<"a", "@", "MAILINATOR", ".", "com">>),
      JString(<<"javascript:", "@", "b", ".", "c">>),
      JString(<<"<b>", "a", "@", "b", ".", "c", "</b>">>) }

PostMessages ==
    { JString(<<"x">>),
      JString(<<"<script>", "x", "</script>">>),
      JString(<<"<b>", "onx=", "</b>">>),
      JString(<<"vbscript:">>) }

PostFields ==
    {NoFields}
    \cup { [k \in {"email"} |-> e] : e \in PostEmails }
    \cup { [k \in {"message"} |-> m] : m \in PostMessages }
    \cup UNION { { [k \in {"email", "message"} |->
                        IF k = "email" THEN e ELSE m] :
                   e \in PostEmails } : m \in PostMessages }

PostBodies ==
    { Body("null", "absent", NoFields), Body("number", "absent", NoFields),
      Body("object", "absent", NoFields), Body("object", "null", NoFields),
      Body("object", "emptyString", NoFields),
      Body("object", "number", NoFields) }
    \cup { Body("object", "object", fields) : fields \in PostFields }

PostRequests ==
    { [hasBody |-> FALSE, parses |-> FALSE, body |-> NoData],
      [hasBody |-> TRUE, parses |-> FALSE, body |-> NoData] }
    \cup { [hasBody |-> TRUE, parses |-> TRUE, body |-> b] :
           b \in PostBodies }

NoPost ==
    [done |-> FALSE,
     request |-> [hasBody |-> FALSE, parses |-> FALSE, body |-> NoData],
     response |-> Response(0, FALSE, "", NoData)]

PostIdle == post = NoPost

OthersIdle ==
    /\ MwIdle
    /\ VfIdle
    /\ FormIdle
    /\ PageIdle
    /\ PostIdle

\* ------------------------------------------------------ history helpers
\* the store a limiter holds when it has only ever seen identifier
SoloStore(identifier) ==
    IF solo[identifier].count = 0 THEN EmptyMap
    ELSE MapSet(EmptyMap, identifier, solo[identifier])

NoSolo == [count |-> 0, resetTime |-> 0]

SoloOf(s, identifier) ==
    IF MapHas(s, identifier) THEN s[identifier] ELSE NoSolo

Min(x, y) == IF x < y THEN x ELSE y

\* fresh[i]: which call last deleted i's record, and the count it deleted
NotFresh == [by |-> "none", count |-> 0]

Deleted(s, identifier, op) == [by |-> op, count |-> getCount(s, identifier)]

NoCall ==
    [op |-> "none", id |-> <<"a">>, result |-> FALSE, count |-> 0,
     cleanupNow |-> 0, now |-> 0, preStore |-> EmptyMap,
     preStart |-> -1, preCalls |-> 0, preFresh |-> NotFresh, preSeen |-> FALSE,
     ncResult |-> FALSE, soloResult |-> FALSE]

\* ----------------------------------------------------------------- Init
\* new RateLimiter(windowMs, maxRequests): empty store
LimiterInit ==
    /\ store = EmptyMap
    /\ windowMs \in 0..MaxWindowMs
    /\ maxRequests \in 0..MaxMaxRequests
    /\ clock = 0
    /\ last = NoCall
    /\ calls = [i \in Identifiers |-> 0]
    /\ windowStart = [i \in Identifiers |-> -1]
    /\ lastWrite = [i \in Identifiers |-> -1]
    /\ fresh = [i \in Identifiers |-> NotFresh]
    /\ seen = {}
    /\ ncStore = EmptyMap
    /\ solo = [i \in Identifiers |-> NoSolo]

Init ==
    /\ LimiterInit
    /\ OthersIdle

\* -------------------------------------------------------------- actions
\* the millisecond clock advances
Tick ==
    /\ clock < MaxTime
    /\ clock' = clock + 1
    /\ last' = NoCall
    /\ UNCHANGED <<store, windowMs, maxRequests, calls, windowStart,
                   lastWrite, fresh, seen, ncStore, solo>>
    /\ UNCHANGED others

\* rateLimiter.isRateLimited(identifier)
IsRateLimited(identifier) ==
    \E now \in clock..Min(clock + 1, MaxTime) :
      LET cleanupNow == clock
          r   == isRateLimited(store, identifier, cleanupNow, now)
          nc  == admit(ncStore, identifier, now)
          so  == isRateLimited(SoloStore(identifier), identifier,
                               cleanupNow, now)
          swept == cleanup(store, cleanupNow)
          opened == ~MapHas(swept, identifier)
                      \/ now > swept[identifier].resetTime
      IN
      /\ store' = r.store
      /\ clock' = now
      /\ ncStore' = nc.store
      /\ solo' = [solo EXCEPT ![identifier] = SoloOf(so.store, identifier)]
      /\ last' = [op |-> "isRateLimited", id |-> identifier,
                  result |-> r.result, count |-> 0,
                  cleanupNow |-> cleanupNow, now |-> now,
                  preStore |-> store,
                  preStart |-> windowStart[identifier],
                  preCalls |-> calls[identifier],
                  preFresh |-> fresh[identifier],
                  preSeen |-> identifier \in seen,
                  ncResult |-> nc.result, soloResult |-> so.result]
      /\ calls' = [calls EXCEPT ![identifier] =
                      IF opened THEN 1 ELSE Min(@ + 1, CallCap)]
      /\ windowStart' = [windowStart EXCEPT ![identifier] =
                            IF opened THEN now ELSE @]
      /\ lastWrite' = [lastWrite EXCEPT ![identifier] =
                          IF r.result THEN @ ELSE now]
      /\ fresh' = [fresh EXCEPT ![identifier] = NotFresh]
      /\ seen' = seen \cup {identifier}
      /\ UNCHANGED <<windowMs, maxRequests>>
      /\ UNCHANGED others

\* rateLimiter.getCount(identifier)
GetCount(identifier) ==
    /\ last' = [NoCall EXCEPT !.op = "getCount", !.id = identifier,
                              !.count = getCount(store, identifier),
                              !.now = clock, !.cleanupNow = clock,
                              !.preStore = store,
                              !.preStart = windowStart[identifier],
                              !.preCalls = calls[identifier],
                              !.preFresh = fresh[identifier],
                              !.preSeen = identifier \in seen]
    /\ UNCHANGED <<store, windowMs, maxRequests, clock, calls, windowStart,
                   lastWrite, fresh, seen, ncStore, solo>>
    /\ UNCHANGED others

\* rateLimiter.reset(identifier)
Reset(identifier) ==
    /\ store' = reset(store, identifier)
    /\ ncStore' = reset(ncStore, identifier)
    /\ solo' = [solo EXCEPT ![identifier] =
                   SoloOf(reset(SoloStore(identifier), identifier), identifier)]
    /\ last' = [NoCall EXCEPT !.op = "reset", !.id = identifier,
                              !.now = clock, !.cleanupNow = clock,
                              !.preStore = store,
                              !.preStart = windowStart[identifier],
                              !.preCalls = calls[identifier],
                              !.preFresh = fresh[identifier],
                              !.preSeen = identifier \in seen]
    /\ calls' = [calls EXCEPT ![identifier] = 0]
    /\ windowStart' = [windowStart EXCEPT ![identifier] = -1]
    /\ lastWrite' = [lastWrite EXCEPT ![identifier] = -1]
    /\ fresh' = [fresh EXCEPT ![identifier] =
                                     Deleted(store, identifier, "reset")]
    /\ UNCHANGED <<windowMs, maxRequests, clock, seen>>
    /\ UNCHANGED others

\* rateLimiter.clear()
Clear ==
    /\ store' = clear(store)
    /\ ncStore' = clear(ncStore)
    /\ solo' = [i \in Identifiers |-> SoloOf(clear(SoloStore(i)), i)]
    /\ last' = [NoCall EXCEPT !.op = "clear", !.now = clock,
                              !.cleanupNow = clock, !.preStore = store]
    /\ calls' = [i \in Identifiers |-> 0]
    /\ windowStart' = [i \in Identifiers |-> -1]
    /\ lastWrite' = [i \in Identifiers |-> -1]
    /\ fresh' = [i \in Identifiers |->
                    IF MapHas(store, i) THEN Deleted(store, i, "clear")
                    ELSE fresh[i]]
    /\ UNCHANGED <<windowMs, maxRequests, clock, seen>>
    /\ UNCHANGED others

Next ==
    \/ Tick
    \/ \E identifier \in Identifiers : IsRateLimited(identifier)
    \/ \E identifier \in Identifiers : GetCount(identifier)
    \/ \E identifier \in Identifiers : Reset(identifier)
    \/ Clear

Spec == Init /\ [][Next]_vars

\* ---------------------------------------------------- middleware (SpecMw)
historyVars == <<last, calls, windowStart, lastWrite, fresh, seen,
                 ncStore, solo>>

MwInit ==
    /\ LimiterInit
    /\ OthersIdle

MwTick ==
    /\ clock < MaxMwTime
    /\ clock' = clock + 1
    /\ UNCHANGED <<store, windowMs, maxRequests, mw, single>>
    /\ UNCHANGED <<historyVars, vfVars, formVars, pageVars, postVars>>

\* one request passes the middleware; an API request makes the limiter read
\* the clock
Middleware(request) ==
    \E now \in clock..Min(clock + 1, MaxMwTime) :
      LET m == middleware(store, request, clock, now) IN
      /\ store' = m.store
      /\ clock' = IF m.called THEN now ELSE clock
      /\ mw' = [op |-> "middleware", request |-> request,
                called |-> m.called, ip |-> m.ip, result |-> m.result,
                response |-> m.response, preStore |-> store,
                cleanupNow |-> clock, now |-> now]
      /\ UNCHANGED <<windowMs, maxRequests, single>>
      /\ UNCHANGED <<historyVars, vfVars, formVars, pageVars, postVars>>

MwNext ==
    \/ MwTick
    \/ \E request \in MwRequests : Middleware(request)

SpecMw == MwInit /\ [][MwNext]_vars

\* --------------------------- the singleton and one caller (SpecSingleton)
\* export const rateLimiter = new RateLimiter(): 60000 ms, 100 requests
SingleInit ==
    /\ store = EmptyMap
    /\ windowMs = DefaultWindowMs
    /\ maxRequests = DefaultMaxRequests
    /\ clock = 0
    /\ last = NoCall
    /\ calls = [i \in Identifiers |-> 0]
    /\ windowStart = [i \in Identifiers |-> -1]
    /\ lastWrite = [i \in Identifiers |-> -1]
    /\ fresh = [i \in Identifiers |-> NotFresh]
    /\ seen = {}
    /\ ncStore = EmptyMap
    /\ solo = [i \in Identifiers |-> NoSolo]
    /\ OthersIdle

\* a millisecond passes
SingleTick ==
    /\ single.ticks < MaxSingleTicks
    /\ clock' = clock + 1
    /\ single' = [single EXCEPT !.op = "tick", !.ticks = @ + 1,
                                !.preDeniedAt = single.deniedAt]
    /\ UNCHANGED <<store, windowMs, maxRequests, mw>>
    /\ UNCHANGED <<historyVars, vfVars, formVars, pageVars, postVars>>

\* the caller waits for as long as Retry-After says
SingleWait ==
    /\ single.waits < MaxSingleWaits
    /\ clock' = clock + RetryAfterMs
    /\ single' = [single EXCEPT !.op = "wait", !.waits = @ + 1,
                                !.preDeniedAt = single.deniedAt]
    /\ UNCHANGED <<store, windowMs, maxRequests, mw>>
    /\ UNCHANGED <<historyVars, vfVars, formVars, pageVars, postVars>>

\* the caller's next API request passes the middleware
SingleRequest ==
    \E now \in {clock} \cup
                {t \in {clock + 1} : single.ticks < MaxSingleTicks} :
      LET m == middleware(store, AnonymousRequest, clock, now)
          opened == \/ ~MapHas(store, m.ip)
                    \/ now > store[m.ip].resetTime
      IN
      /\ store' = m.store
      /\ clock' = now
      /\ mw' = [op |-> "middleware", request |-> AnonymousRequest,
                called |-> m.called, ip |-> m.ip, result |-> m.result,
                response |-> m.response, preStore |-> store,
                cleanupNow |-> clock, now |-> now]
      /\ single' =
            [op |-> "request",
             calls |-> IF opened THEN 1
                       ELSE Min(single.calls + 1, maxRequests + 1),
             admitted |-> IF opened THEN 1
                          ELSE IF m.result THEN single.admitted
                          ELSE single.admitted + 1,
             openedAt |-> IF opened THEN now ELSE single.openedAt,
             prev |-> IF ~opened THEN single.prev
                      ELSE IF MapHas(store, m.ip)
                      THEN [admitted |-> single.admitted,
                            resetTime |-> store[m.ip].resetTime]
                      ELSE NoWindow,
             deniedAt |-> IF m.response.status = 429 THEN now ELSE -1,
             preDeniedAt |-> single.deniedAt,
             ticks |-> single.ticks + (now - clock),
             waits |-> single.waits]
      /\ UNCHANGED <<windowMs, maxRequests>>
      /\ UNCHANGED <<historyVars, vfVars, formVars, pageVars, postVars>>

SingleNext ==
    \/ SingleTick
    \/ SingleWait
    \/ SingleRequest

SpecSingleton == SingleInit /\ [][SingleNext]_vars

\* ------------------------------------------------ validateForm (SpecValidate)
LimiterIdle ==
    /\ LimiterInit
    /\ windowMs = 0
    /\ maxRequests = 0

VfInit ==
    /\ LimiterIdle
    /\ MwIdle
    /\ FormIdle
    /\ PageIdle
    /\ PostIdle
    /\ \E config \in VfConfigs : \E formData \in VfFormData :
          vf = [NoVf EXCEPT !.config = config, !.formData = formData]

Validate ==
    /\ ~vf.done
    /\ vf' = [vf EXCEPT !.done = TRUE,
                        !.errors = validateForm(vf.config, vf.formData)]
    /\ UNCHANGED <<limiterVars, mwVars, formVars, pageVars, postVars>>

VfNext == Validate

SpecValidate == VfInit /\ [][VfNext]_vars

\* ---------------------------------------------------- useForm (SpecForm)
\* Form is rendered with or without an onSubmit callback
FormInit ==
    /\ LimiterIdle
    /\ MwIdle
    /\ VfIdle
    /\ PageIdle
    /\ PostIdle
    /\ form = InitialForm
    /\ flast = NoFlast
    /\ \E hasOnSubmit \in BOOLEAN :
          env = [NoEnv EXCEPT !.hasOnSubmit = hasOnSubmit]

\* the user types into an input or picks an option; the controls are
\* disabled while isSubmitting
ChangeField(fieldId, value) ==
    /\ ~ControlsDisabled(form)
    /\ form' = handleFieldChange(form, fieldId, value)
    /\ env' = [env EXCEPT !.dirty =
                    IF form.isMounted
                    THEN [k \in 1..Len(@) |-> @[k] \cup {fieldId}]
                    ELSE @]
    /\ flast' = [NoFlast EXCEPT !.op = "change", !.pre = form,
                                !.preTimers = env.timers,
                                !.preDirty = env.dirty,
                                !.fieldId = fieldId, !.value = value]
    /\ UNCHANGED <<limiterVars, mwVars, vfVars, pageVars, postVars>>

\* a click on the submit button or Enter in an input: the form's submit
\* event calls handleSubmit, unless the controls are disabled
Submit ==
    /\ env.inFlight + Len(env.timers) < MaxPending
    /\ LET blocked == ControlsDisabled(form)
           r == IF blocked THEN [form |-> form, started |-> "none"]
                ELSE handleSubmit(form, FormConfig, env.hasOnSubmit)
       IN /\ form' = r.form
          /\ env' = [env EXCEPT !.inFlight =
                        IF r.started = "none" THEN @ ELSE @ + 1]
          /\ flast' = [NoFlast EXCEPT !.op = IF blocked THEN "blocked"
                                             ELSE "submit",
                                      !.pre = form,
                                      !.preTimers = env.timers,
                                      !.preDirty = env.dirty,
                                      !.started = r.started]
    /\ UNCHANGED <<limiterVars, mwVars, vfVars, pageVars, postVars>>

\* the awaited onSubmit or fetch settles and handleSubmit runs to its end
Settle(outcome) ==
    /\ env.inFlight > 0
    /\ LET r == settle(form, outcome) IN
          /\ form' = r.form
          /\ env' = [env EXCEPT !.inFlight = @ - 1,
                                !.timers = IF r.timer THEN Append(@, 0)
                                           ELSE @,
                                !.dirty = IF r.timer THEN Append(@, {})
                                          ELSE @]
          /\ flast' = [NoFlast EXCEPT !.op = "settle", !.pre = form,
                                      !.preTimers = env.timers,
                                      !.preDirty = env.dirty,
                                      !.outcome = outcome]
    /\ UNCHANGED <<limiterVars, mwVars, vfVars, pageVars, postVars>>

\* the oldest setTimeout callback runs, at least 2000 ms after it was set
TimerFire ==
    /\ env.timers # <<>>
    /\ Head(env.timers) >= AutoResetDelayMs
    /\ form' = autoReset(form)
    /\ env' = [env EXCEPT !.timers = Tail(@), !.dirty = Tail(@)]
    /\ flast' = [NoFlast EXCEPT !.op = "timer", !.pre = form,
                                !.preTimers = env.timers,
                                !.preDirty = env.dirty]
    /\ UNCHANGED <<limiterVars, mwVars, vfVars, pageVars, postVars>>

\* time passes while a timer is pending and none is due
FormTick ==
    /\ env.timers # <<>>
    /\ Head(env.timers) < AutoResetDelayMs
    /\ env' = [env EXCEPT !.timers =
                    [k \in 1..Len(@) |-> @[k] + FormTickMs]]
    /\ flast' = [NoFlast EXCEPT !.op = "tick", !.pre = form,
                                !.preTimers = env.timers,
                                !.preDirty = env.dirty]
    /\ UNCHANGED <<form, limiterVars, mwVars, vfVars, pageVars, postVars>>

\* a click on 'Reset Form', rendered when formData has a key or success is
\* set, disabled while isSubmitting
ResetClick ==
    /\ ~ControlsDisabled(form)
    /\ DOMAIN form.formData # {} \/ form.success # Null
    /\ form' = resetForm(form)
    /\ env' = [env EXCEPT !.dirty =
                    IF form.isMounted THEN [k \in 1..Len(@) |-> {}]
                    ELSE @]
    /\ flast' = [NoFlast EXCEPT !.op = "reset", !.pre = form,
                                !.preTimers = env.timers,
                                !.preDirty = env.dirty]
    /\ UNCHANGED <<limiterVars, mwVars, vfVars, pageVars, postVars>>

\* the window's beforeunload event
Unmount ==
    /\ form.isMounted
    /\ form' = unmount(form)
    /\ flast' = [NoFlast EXCEPT !.op = "unmount", !.pre = form,
                                !.preTimers = env.timers,
                                !.preDirty = env.dirty]
    /\ UNCHANGED <<env, limiterVars, mwVars, vfVars, pageVars, postVars>>

SubmitOutcomes ==
    IF env.hasOnSubmit THEN OnSubmitOutcomes
    ELSE { FetchOutcome(r) : r \in FetchResults }

FormNext ==
    \/ \E fieldId \in FormFieldIds : \E value \in FormValues :
          ChangeField(fieldId, value)
    \/ Submit
    \/ \E outcome \in SubmitOutcomes : Settle(outcome)
    \/ TimerFire
    \/ FormTick
    \/ ResetClick
    \/ Unmount

SpecForm == FormInit /\ [][FormNext]_vars

\* an awaited onSubmit or fetch always settles (it resolves or it rejects),
\* time passes, and the event loop runs a timer that is due
SpecFormFair ==
    /\ SpecForm
    /\ WF_vars(\E outcome \in SubmitOutcomes : Settle(outcome))
    /\ WF_vars(FormTick)
    /\ WF_vars(TimerFire)

\* ------------------------------------------------------ Home (SpecPage)
PageInit ==
    /\ LimiterIdle
    /\ MwIdle
    /\ VfIdle
    /\ FormIdle
    /\ PostIdle
    /\ PageIdle

\* the effect runs once, after the first render
Mount ==
    /\ ~page.effectRan
    /\ LET r == useEffect(page) IN
          /\ page' = r.page
          /\ plast' = [NoPlast EXCEPT !.op = "mount", !.pre = page,
                                      !.fetched = r.fetched]
    /\ UNCHANGED <<limiterVars, mwVars, vfVars, formVars, postVars>>

\* a click on 'Try Again' (or 'Retry'), shown and enabled when not loading
Retry ==
    /\ RetryShown(page)
    /\ page.retryCount < MaxRetries
    /\ LET r == handleRetry(page) IN
          /\ page' = r.page
          /\ plast' = [NoPlast EXCEPT !.op = "retry", !.pre = page,
                                      !.fetched = r.fetched,
                                      !.afterFailure = View(page) = "error"]
    /\ UNCHANGED <<limiterVars, mwVars, vfVars, formVars, postVars>>

\* the awaited fetch settles and loadConfig runs to its end
LoadSettle(result) ==
    /\ page.inFlight > 0
    /\ page' = loadConfigSettle(page, result)
    /\ plast' = [plast EXCEPT !.op = "settle", !.pre = page,
                              !.fetched = <<>>, !.result = result]
    /\ UNCHANGED <<limiterVars, mwVars, vfVars, formVars, postVars>>

PageNext ==
    \/ Mount
    \/ Retry
    \/ \E result \in ConfigResults : LoadSettle(result)

SpecPage == PageInit /\ [][PageNext]_vars

\* a fetch always settles: it resolves or it rejects
SpecPageFair ==
    /\ SpecPage
    /\ WF_vars(Mount)
    /\ WF_vars(\E result \in ConfigResults : LoadSettle(result))

\* ------------------------------------------- POST /api/submit (SpecSubmit)
PostInit ==
    /\ LimiterIdle
    /\ MwIdle
    /\ VfIdle
    /\ FormIdle
    /\ PageIdle
    /\ \E request \in PostRequests :
          post = [NoPost EXCEPT !.request = request]

Post ==
    /\ ~post.done
    /\ post' = [post EXCEPT !.done = TRUE, !.response = POST(post.request)]
    /\ UNCHANGED <<limiterVars, mwVars, vfVars, formVars, pageVars>>

PostNext == Post

SpecSubmit == PostInit /\ [][PostNext]_vars

\* =================================================================
\* Properties
\* =================================================================

\* C1: with maxRequests = M >= 1, of the calls made for an identifier inside
\* one window (counted from the call that opens the window) the first M
\* return false and the (M+1)-th returns true.
C1_FirstMAdmittedThenDenied ==
    (last.op = "isRateLimited" /\ maxRequests >= 1
        /\ calls[last.id] <= maxRequests + 1)
    => (last.result = (calls[last.id] = maxRequests + 1))

C1_Witness ==
    /\ last.op = "isRateLimited"
    /\ maxRequests = MaxMaxRequests
    /\ last.preSeen
    /\ calls[last.id] = maxRequests + 1
    /\ last.result = TRUE

\* C2 (as stated): once windowMs milliseconds have elapsed since the call
\* that opened the identifier's window, the next isRateLimited call for it
\* returns false.
C2_ResetAfterWindowMs ==
    (last.op = "isRateLimited" /\ windowMs > 0 /\ maxRequests >= 1
        /\ last.preStart >= 0 /\ last.now - last.preStart >= windowMs)
    => (last.result = FALSE)

\* C2 (amended): once MORE than windowMs milliseconds have elapsed since the
\* call that opened the window (now > resetTime), the next isRateLimited
\* call returns false, however many calls were denied in between.
C2_ResetAfterMoreThanWindowMs ==
    (last.op = "isRateLimited" /\ windowMs > 0 /\ maxRequests >= 1
        /\ last.preStart >= 0 /\ last.now - last.preStart > windowMs)
    => (last.result = FALSE)

C2_Witness ==
    /\ last.op = "isRateLimited"
    /\ windowMs > 0 /\ maxRequests >= 1
    /\ last.preStart >= 0
    /\ last.now - last.preStart > windowMs
    /\ last.preCalls > maxRequests + 1
    /\ last.result = FALSE

\* C3: getCount is 0 for an identifier never seen, a call that returns false
\* raises getCount of its identifier by exactly 1 and a call that returns
\* true leaves it unchanged.
C3_GetCountTracksAdmissions ==
    /\ \A i \in Identifiers \ seen : getCount(store, i) = 0
    /\ (last.op = "isRateLimited")
       => (getCount(store, last.id) =
             getCount(last.preStore, last.id)
               + (IF last.result THEN 0 ELSE 1))

\* C4: the result of every isRateLimited(b) call equals the result the same
\* call gets from a limiter that is never called with any other identifier.
C4_IdentifiersIndependent ==
    (last.op = "isRateLimited") => (last.result = last.soloResult)

C4_Witness ==
    /\ last.op = "isRateLimited"
    /\ maxRequests >= 1
    /\ last.result = FALSE
    /\ \E other \in Identifiers \ {last.id} :
          /\ MapHas(store, other)
          /\ store[other].count = maxRequests
          /\ calls[other] > maxRequests
          /\ last.now <= store[other].resetTime

\* C5: with maxRequests >= 1 every stored record has
\* 1 <= count <= maxRequests.
C5_CountWithinBounds ==
    (maxRequests >= 1)
    => (\A i \in DOMAIN store :
            1 <= store[i].count /\ store[i].count <= maxRequests)

C5_Witness ==
    /\ maxRequests = MaxMaxRequests
    /\ last.op = "isRateLimited"
    /\ last.result = TRUE
    /\ store[last.id].count = maxRequests

\* C6: a record whose resetTime is earlier than the current time is treated
\* as absent: isRateLimited returns false and writes {count: 1,
\* resetTime: now + windowMs}, and getCount returns 0.
C6_StaleTreatedAsAbsent ==
    LET stale == /\ MapHas(last.preStore, last.id)
                 /\ last.now > last.preStore[last.id].resetTime
    IN  /\ (last.op = "isRateLimited" /\ stale)
           => (/\ last.result = FALSE
               /\ MapHas(store, last.id)
               /\ store[last.id] =
                    [count |-> 1, resetTime |-> last.now + windowMs])
        /\ (last.op = "getCount" /\ stale) => (last.count = 0)

\* C7 (as stated): with windowMs > 0 every stored record has resetTime
\* strictly greater than the time of its last write (creation or latest
\* count increment).
C7_ResetTimeAfterLastWrite ==
    (windowMs > 0)
    => (\A i \in DOMAIN store : store[i].resetTime > lastWrite[i])

\* C7 (amended): with windowMs > 0 every stored record has resetTime
\* strictly greater than the time of its creation and not earlier than the
\* time of its latest count increment.
C7_ResetTimeNotBeforeLastWrite ==
    (windowMs > 0)
    => (\A i \in DOMAIN store :
            /\ store[i].resetTime > windowStart[i]
            /\ store[i].resetTime >= lastWrite[i])

C7_Witness ==
    /\ windowMs > 0
    /\ \E i \in DOMAIN store :
          /\ store[i].count >= 2
          /\ lastWrite[i] = store[i].resetTime
          /\ windowStart[i] < lastWrite[i]

\* C8: every isRateLimited call returns what the same call returns from a
\* limiter that never sweeps and relies on the now > resetTime check alone.
C8_CleanupNeverChangesResult ==
    (last.op = "isRateLimited") => (last.result = last.ncResult)

C8_Witness ==
    /\ last.op = "isRateLimited"
    /\ last.result = TRUE
    /\ \E i \in DOMAIN last.preStore :
          last.cleanupNow > last.preStore[i].resetTime
    /\ DOMAIN store # DOMAIN ncStore

\* C9: after reset(id), getCount(id) is 0 and the next isRateLimited(id)
\* returns false, also when the record deleted had count = maxRequests.
C9_ResetRestoresQuota ==
    /\ \A i \in Identifiers :
          (fresh[i].by = "reset") => (getCount(store, i) = 0)
    /\ (last.op = "isRateLimited" /\ last.preFresh.by = "reset")
       => (last.result = FALSE)

C9_Witness ==
    /\ last.op = "isRateLimited"
    /\ last.preFresh.by = "reset"
    /\ maxRequests >= 1
    /\ last.preFresh.count = maxRequests
    /\ last.result = FALSE

\* C10: after clear(), getCount is 0 for every identifier that had a record
\* and the next isRateLimited call for it is admitted like a first call:
\* it returns false and writes {count: 1, resetTime: now + windowMs}.
C10_ClearRestoresAll ==
    /\ \A i \in Identifiers :
          (fresh[i].by = "clear") => (getCount(store, i) = 0)
    /\ (last.op = "isRateLimited" /\ last.preFresh.by = "clear")
       => (/\ last.result = FALSE
           /\ MapHas(store, last.id)
           /\ store[last.id] =
                [count |-> 1, resetTime |-> last.now + windowMs])

C10_Witness ==
    /\ last.op = "isRateLimited"
    /\ last.preFresh.by = "clear"
    /\ maxRequests >= 1
    /\ last.preFresh.count = maxRequests
    /\ last.result = FALSE
    /\ \E other \in Identifiers \ {last.id} : fresh[other].by = "clear"

\* C11: right after an isRateLimited call made at time t (the time its
\* cleanup pass reads) returns, the store holds no record, of any
\* identifier, whose resetTime is earlier than t.
C11_NoExpiredRecordAfterCall ==
    (last.op = "isRateLimited")
    => (\A i \in DOMAIN store : ~(store[i].resetTime < last.cleanupNow))

C11_Witness ==
    /\ last.op = "isRateLimited"
    /\ \E other \in DOMAIN last.preStore \ {last.id} :
          /\ last.preStore[other].resetTime < last.cleanupNow
          /\ ~MapHas(store, other)
    /\ MapHas(store, last.id)

\* C12: a request whose path starts with '/api/' is answered 429
\* RATE_LIMIT_EXCEEDED with Retry-After 60 exactly when isRateLimited of its
\* identifier returns true, and proceeds otherwise; any other request
\* proceeds and neither consults nor changes the limiter.
C12_MiddlewareGatesApiRequests ==
    (mw.op = "middleware")
    => LET path == mw.request.path
           api  == /\ Len(path) >= 5
                   /\ path[1] = "/" /\ path[2] = "a" /\ path[3] = "p"
                   /\ path[4] = "i" /\ path[5] = "/"
           r    == isRateLimited(mw.preStore, mw.ip, mw.cleanupNow, mw.now)
       IN  /\ api => /\ mw.called
                     /\ store = r.store
                     /\ r.result
                        => (/\ mw.response.status = 429
                            /\ mw.response.error = "RATE_LIMIT_EXCEEDED"
                            /\ mw.response.retryAfter = 60
                            /\ ~mw.response.proceeds)
                     /\ ~r.result => mw.response.proceeds
           /\ ~api => /\ ~mw.called
                      /\ mw.response.proceeds
                      /\ store = mw.preStore

C12_Witness ==
    /\ mw.op = "middleware"
    /\ StartsWith(mw.request.path, ApiPrefix)
    /\ maxRequests >= 2
    /\ mw.response.status = 429
    /\ MapHas(store, mw.ip)

\* C20: validateForm reports '<label> is required' for every required input
\* or dropdown component whose value is missing, empty or whitespace-only,
\* and reports no error for a component of any other type, required or not.
C20_RequiredFieldsReported ==
    vf.done
    => \A k \in 1..Len(vf.config.components) :
          LET c == vf.config.components[k]
              value == IF c.id \in DOMAIN vf.formData
                       THEN vf.formData[c.id] ELSE <<>>
              blank == \A n \in 1..Len(value) : value[n] = " "
          IN  /\ (c.type \in {"input", "dropdown"} /\ c.required /\ blank)
                 => (/\ c.id \in DOMAIN vf.errors
                     /\ vf.errors[c.id].text = "is required"
                     /\ vf.errors[c.id].label =
                          (IF c.label = <<>> THEN ThisField ELSE c.label))
              /\ (c.type \notin {"input", "dropdown"})
                 => (c.id \notin DOMAIN vf.errors)

\* C19: POST /api/submit answers with the first that applies of: 400
\* MISSING_BODY without a body, 400 INVALID_JSON for a body that does not
\* parse, 400 MISSING_FORM_DATA without formData, 400 INVALID_INPUT for a
\* sanitized value with an injection pattern, 422 INVALID_EMAIL for an
\* invalid sanitized email, 422 EMAIL_VALIDATION_ERROR for an email that
\* contains 'error', and 200 with the body echoed in data otherwise.
C19_SubmitResultsInOrder ==
    post.done =>
        LET request == post.request
            body == request.body
            noFormData ==
                \/ body.kind # "object"
                \/ body.formData.kind \in {"absent", "null", "emptyString"}
            raw == body.formData.fields
            sanitized == sanitizeFormData(raw)
        IN  post.response =
            IF ~request.hasBody
            THEN Response(400, FALSE, "MISSING_BODY", NoData)
            ELSE IF ~request.parses
            THEN Response(400, FALSE, "INVALID_JSON", NoData)
            ELSE IF noFormData
            THEN Response(400, FALSE, "MISSING_FORM_DATA", NoData)
            ELSE IF \E key \in DOMAIN sanitized :
                        containsInjectionAttempt(sanitized[key])
            THEN Response(400, FALSE, "INVALID_INPUT", NoData)
            ELSE IF /\ "email" \in DOMAIN sanitized
                    /\ sanitized["email"] # <<>>
                    /\ ~isValidEmail(sanitized["email"])
            THEN Response(422, FALSE, "INVALID_EMAIL", NoData)
            ELSE IF /\ "email" \in DOMAIN raw
                    /\ Includes(raw["email"].str, <<"error">>)
            THEN Response(422, FALSE, "EMAIL_VALIDATION_ERROR", NoData)
            ELSE Response(200, TRUE, "", body)

\* C18: every config load attempt (the first and each retry) issues one
\* fetch of /api/config and ends with loading false and exactly one of:
\* config set, error null and the form shown; or error set (also for a body
\* with success false) and the error view with its retry button shown. A
\* retry that succeeds after a failure shows the form.
C18_AttemptOutcome ==
    /\ plast.op \in {"mount", "retry"} =>
          /\ plast.fetched = <<ConfigUrl>>
          /\ page.inFlight = 1
    /\ plast.op = "settle" =>
          LET loaded == /\ page.config # Null
                        /\ page.error = Null
                        /\ View(page) = "form"
              failed == /\ page.error \notin {Null, ""}
                        /\ View(page) = "error"
                        /\ RetryShown(page)
          IN  /\ ~page.loading
              /\ page.inFlight = 0
              /\ loaded # failed
              /\ (plast.result.jsonOk /\ plast.result.body.success = "false")
                    => failed
              /\ (plast.result.rejects \/ ~plast.result.ok) => failed

C18_EveryConfigLoadEnds ==
    /\ []C18_AttemptOutcome
    /\ (page.inFlight > 0) ~> (page.inFlight = 0 /\ ~page.loading)

C18_Witness ==
    /\ plast.op = "settle"
    /\ plast.afterFailure
    /\ View(page) = "form"

\* C13: handleSubmit on form data that fails validation never starts a
\* submission: neither onSubmit nor fetch is called, isSubmitting stays
\* false, error becomes 'Please fix the errors below' and fieldErrors has an
\* entry for every invalid field.
FieldInvalid(component, formData) ==
    LET value == IF component.id \in DOMAIN formData
                 THEN formData[component.id] ELSE <<>>
    IN  /\ component.type \in {"input", "dropdown"}
        /\ \/ component.required /\ Trim(value) = <<>>
           \/ /\ component.id = "email"
              /\ value # <<>>
              /\ ~EmailRegexTest(value)

InvalidFields(formData) ==
    { FormConfig.components[k].id : k \in
        { j \in 1..Len(FormConfig.components) :
            FieldInvalid(FormConfig.components[j], formData) } }

InvalidSubmitRejected ==
    /\ flast.started = "none"
    /\ env.inFlight = 0
    /\ ~form.isSubmitting
    /\ form.error = PleaseFix
    /\ \A fieldId \in InvalidFields(flast.pre.formData) :
          /\ fieldId \in DOMAIN form.fieldErrors
          /\ form.fieldErrors[fieldId].text # ""

C13_InvalidSubmitNeverStarts ==
    (flast.op = "submit" /\ InvalidFields(flast.pre.formData) # {})
        => InvalidSubmitRejected

\* C13 (amended): the same, for a handleSubmit call on a mounted form.
C13_InvalidSubmitOnMountedNeverStarts ==
    (/\ flast.op = "submit"
     /\ flast.pre.isMounted
     /\ InvalidFields(flast.pre.formData) # {})
        => InvalidSubmitRejected

C13_Witness ==
    /\ flast.op = "submit"
    /\ flast.pre.isMounted
    /\ InvalidFields(flast.pre.formData) = {"name", "email"}
    /\ form.error = PleaseFix

\* C14: every submission that passes validation, on a form that stays
\* mounted, eventually ends with isSubmitting false and exactly one outcome:
\* success 'Form submitted successfully!' with error null and fieldErrors
\* empty when the submit call resolves, an error message with success null
\* when it rejects or the response is not ok.
C14_SettleOutcome ==
    (flast.op = "settle" /\ flast.pre.isMounted) =>
        /\ flast.pre.isSubmitting
        /\ ~form.isSubmitting
        /\ flast.outcome.ok =>
              /\ form.success = SubmittedSuccessfully
              /\ form.error = Null
              /\ form.fieldErrors = NoErrors
        /\ ~flast.outcome.ok =>
              /\ form.error \notin {Null, ""}
              /\ form.error = ErrorMessageOf(flast.outcome)
              /\ form.success = Null

C14_EverySubmissionEnds ==
    /\ []C14_SettleOutcome
    /\ (form.isSubmitting /\ form.isMounted)
          ~> (~form.isSubmitting \/ ~form.isMounted)

C14_Witness ==
    /\ flast.op = "settle"
    /\ flast.pre.isMounted
    /\ flast.pre.isSubmitting
    /\ ~flast.outcome.ok
    /\ form.error = NetworkErrorMessage
    /\ ~form.isSubmitting

\* C15: handleFieldChange(fieldId, value) sets formData[fieldId] to value,
\* leaves the values of all other fields unchanged and sets error to null.
FieldChanged ==
    /\ DOMAIN form.formData = DOMAIN flast.pre.formData \cup {flast.fieldId}
    /\ form.formData[flast.fieldId] = flast.value
    /\ \A other \in DOMAIN flast.pre.formData \ {flast.fieldId} :
          form.formData[other] = flast.pre.formData[other]
    /\ form.error = Null

C15_FieldChangeSetsValue == flast.op = "change" => FieldChanged

\* C15 (amended): the same, for a handleFieldChange call on a mounted form.
C15_FieldChangeOnMountedSetsValue ==
    (flast.op = "change" /\ flast.pre.isMounted) => FieldChanged

C15_Witness ==
    /\ flast.op = "change"
    /\ flast.pre.isMounted
    /\ flast.pre.error = PleaseFix
    /\ flast.fieldId = "name"
    /\ "email" \in DOMAIN flast.pre.formData
    /\ "name" \in DOMAIN flast.pre.formData
    /\ flast.pre.formData["name"] # flast.value
    /\ form.error = Null

\* C16: resetForm, called in any state of a mounted form, returns the hook
\* to its initial state: formData {}, fieldErrors {}, error null, success
\* null, isSubmitting false.
C16_ResetFormRestoresInitialState ==
    /\ form.isMounted => resetForm(form) = InitialForm
    /\ (flast.op = "reset" /\ flast.pre.isMounted) =>
          /\ form.formData = NoFormData
          /\ form.fieldErrors = NoErrors
          /\ form.error = Null
          /\ form.success = Null
          /\ ~form.isSubmitting

C16_Witness ==
    /\ flast.op = "reset"
    /\ flast.pre.isMounted
    /\ flast.pre.formData # NoFormData
    /\ flast.pre.fieldErrors # NoErrors
    /\ flast.pre.error = PleaseFix
    /\ form = InitialForm

\* C17: after a successful submission the form auto-resets: two seconds
\* after success is set, formData and fieldErrors are cleared to empty.
TimerScheduledOnSuccess ==
    (flast.op = "settle" /\ flast.pre.isMounted /\ flast.outcome.ok) =>
        /\ form.success = SubmittedSuccessfully
        /\ env.timers = Append(flast.preTimers, 0)

C17_AutoResetClears ==
    /\ TimerScheduledOnSuccess
    /\ flast.op = "timer" =>
          /\ Head(flast.preTimers) >= AutoResetDelayMs
          /\ form.formData = NoFormData
          /\ form.fieldErrors = NoErrors

\* C17 (amended): the same, when the form is still mounted as the timer
\* fires; and a pending timer of a mounted form does fire.
C17_AutoResetClearsWhileMounted ==
    /\ [](/\ TimerScheduledOnSuccess
          /\ (flast.op = "timer" /\ flast.pre.isMounted) =>
                /\ Head(flast.preTimers) >= AutoResetDelayMs
                /\ form.formData = NoFormData
                /\ form.fieldErrors = NoErrors)
    /\ (env.timers # <<>> /\ form.isMounted)
          ~> (flast.op = "timer" \/ ~form.isMounted)

C17_Witness ==
    /\ flast.op = "timer"
    /\ flast.pre.isMounted
    /\ flast.pre.success = SubmittedSuccessfully
    /\ flast.pre.formData # NoFormData
    /\ form.formData = NoFormData

\* C21: windows are anchored at the call that creates the record: an
\* admitted call inside a live window adds 1 to count and keeps resetTime,
\* no call inside a live window changes resetTime, and a record with
\* resetTime = now + windowMs is written only by a call that finds no record
\* (first call, or after reset, clear or a sweep) or comes after resetTime.
LiveBefore ==
    /\ MapHas(last.preStore, last.id)
    /\ last.now <= last.preStore[last.id].resetTime

C21_WindowsAreAnchored ==
    last.op = "isRateLimited" =>
        /\ MapHas(store, last.id)
        /\ LiveBefore =>
              /\ store[last.id].resetTime =
                    last.preStore[last.id].resetTime
              /\ ~last.result =>
                    store[last.id].count =
                        last.preStore[last.id].count + 1
        /\ ~LiveBefore =>
              /\ ~last.result
              /\ store[last.id] =
                    [count |-> 1, resetTime |-> last.now + windowMs]
        /\ ~MapHas(last.preStore, last.id) =>
              \/ ~last.preSeen
              \/ last.preFresh.by \in {"reset", "clear"}
              \/ last.preStart = -1
              \/ last.now > last.preStart + windowMs

C21_Witness ==
    /\ last.op = "isRateLimited"
    /\ LiveBefore
    /\ ~last.result
    /\ last.now > last.preStart
    /\ store[last.id].count = 2
    /\ store[last.id].resetTime = last.preStart + windowMs

\* C22: a denied isRateLimited call leaves the identifier's record as it
\* was: count is not incremented and resetTime is not modified.
C22_DeniedCallChangesNothing ==
    (last.op = "isRateLimited" /\ last.result) =>
        /\ LiveBefore
        /\ last.preStore[last.id].count >= maxRequests
        /\ MapHas(store, last.id)
        /\ store[last.id] = last.preStore[last.id]

C22_Witness ==
    /\ last.op = "isRateLimited"
    /\ last.result
    /\ maxRequests > 0
    /\ last.now > last.preStart
    /\ store[last.id] = last.preStore[last.id]

\* C23: getCount never modifies the store and removes no expired record,
\* reset(id) for an identifier without a record changes nothing, and
\* reset(id) never changes the record of another identifier.
C23_ReadOnlyAndNoOp ==
    /\ last.op = "getCount" => store = last.preStore
    /\ (last.op = "reset" /\ ~MapHas(last.preStore, last.id)) =>
          store = last.preStore
    /\ last.op = "reset" =>
          \A other \in Identifiers \ {last.id} :
              /\ MapHas(store, other) = MapHas(last.preStore, other)
              /\ MapHas(store, other) =>
                    store[other] = last.preStore[other]

C23_Witness ==
    /\ last.op = "reset"
    /\ MapHas(last.preStore, last.id)
    /\ \E other \in Identifiers \ {last.id} :
          /\ MapHas(store, other)
          /\ clock > store[other].resetTime

\* C25: the middleware identifies the caller by the first comma-separated
\* entry of x-forwarded-for and, when that header is absent, by the
\* 'unknown' sentinel, so all API requests without a caller identity share
\* one record.
IsFirstEntryOf(ip, header) ==
    \E n \in 0..Len(header) :
        /\ \A k \in 1..n : header[k] # ","
        /\ n = Len(header) \/ header[n + 1] = ","
        /\ ip = Trim(SubSeq(header, 1, n))

C25_ForwardedForOrUnknown ==
    (mw.op = "middleware" /\ mw.called) =>
        IF Truthy(mw.request.forwardedFor)
        THEN IsFirstEntryOf(mw.ip, mw.request.forwardedFor.value)
        ELSE mw.ip = Unknown

\* C25 (amended): without x-forwarded-for the caller is identified by the
\* x-real-ip header, and by 'unknown' only when that is absent too; the
\* identity is the key of the one record the request counts against.
C25_ForwardedForRealIpOrUnknown ==
    (mw.op = "middleware" /\ mw.called) =>
        /\ IF Truthy(mw.request.forwardedFor)
           THEN IsFirstEntryOf(mw.ip, mw.request.forwardedFor.value)
           ELSE IF Truthy(mw.request.realIp)
           THEN mw.ip = mw.request.realIp.value
           ELSE mw.ip = Unknown
        /\ MapHas(store, mw.ip)
        /\ \A other \in DOMAIN store \ {mw.ip} :
              /\ MapHas(mw.preStore, other)
              /\ store[other] = mw.preStore[other]
        /\ mw.result <=>
              /\ MapHas(mw.preStore, mw.ip)
              /\ mw.now <= mw.preStore[mw.ip].resetTime
              /\ mw.preStore[mw.ip].count >= maxRequests

C25_Witness ==
    /\ mw.op = "middleware"
    /\ mw.called
    /\ ~mw.request.forwardedFor.present
    /\ ~mw.request.realIp.present
    /\ mw.ip = Unknown
    /\ maxRequests >= 1
    /\ mw.result
    /\ MapHas(store, <<"a">>)

\* C24: bursts at window boundaries are possible: after a window in which
\* maxRequests calls of an identifier were admitted, the first maxRequests
\* calls of the window that opens once the time is past resetTime are all
\* admitted, however soon after the first burst they come.
C24_BurstAtWindowBoundary ==
    (/\ single.op = "request"
     /\ single.prev.admitted = maxRequests
     /\ single.openedAt > single.prev.resetTime
     /\ single.calls <= maxRequests)
        => /\ ~mw.result
           /\ single.admitted = single.calls
           /\ getCount(store, mw.ip) = single.calls

C24_Witness ==
    /\ single.op = "request"
    /\ single.prev.admitted = maxRequests
    /\ single.openedAt = single.prev.resetTime + 1
    /\ clock = single.openedAt
    /\ single.admitted = maxRequests
    /\ ~mw.result

\* C30: with the default limiter, a caller that receives a 429 and makes
\* its next request for the same identifier 60 seconds later, with no
\* request for that identifier in between, is admitted.
C30_RetryAfterIsSufficient ==
    (/\ single.op = "request"
     /\ single.preDeniedAt >= 0
     /\ mw.cleanupNow = single.preDeniedAt + RetryAfterMs)
        => ~mw.result

C27_NeverErrorAndSuccess == ~(form.error # Null /\ form.success # Null)

\* C28: at most one submission is in flight: while isSubmitting is true a
\* click on the submit button or Enter in an input calls neither onSubmit
\* nor fetch.
C28_OneSubmissionInFlight ==
    /\ env.inFlight <= 1
    /\ flast.op = "submit" => ~flast.pre.isSubmitting
    /\ flast.op = "blocked" =>
          /\ flast.pre.isSubmitting
          /\ flast.started = "none"
          /\ form = flast.pre

C28_Witness ==
    /\ flast.op = "blocked"
    /\ form.isSubmitting
    /\ form.isMounted
    /\ env.inFlight = 1

\* C29: the auto-reset timer of a submission never erases a value that was
\* entered after that submission succeeded.
C29_AutoResetKeepsNewInput ==
    flast.op = "timer" =>
        \A fieldId \in Head(flast.preDirty) :
            /\ fieldId \in DOMAIN form.formData
            /\ form.formData[fieldId] = flast.pre.formData[fieldId]

====
